---- MODULE Spec2Model ----
(***************************************************************************)
(* The two loader scripts of milmi: load_milmi.py (spreadsheet -> employer *)
(* table) and geocode_milmi.py (employer table -> census geocoder ->       *)
(* employers_geo), each a click command `main` that runs once per process  *)
(* against a relational store and a metadata (audit) store.                *)
(*                                                                         *)
(* Text values are sequences of one-character strings where their length   *)
(* or their characters matter (FIPS fragments, NAICS codes) and TLA+       *)
(* strings where only equality matters.                                    *)
(***************************************************************************)
EXTENDS Integers, Sequences, FiniteSets, TLC

(***************************************************************************)
(* Bounds of the model.                                                    *)
(***************************************************************************)
\* rows read from all worksheets of one workbook
MaxRows == 2
\* rows of the source table / of a geocoded frame
MaxGeoRows == 2

(***************************************************************************)
(* Missing values.                                                         *)
(***************************************************************************)
\* pd.NA in a nullable integer column
NAInt == -1
\* pd.NA in a string column (no text value has this shape)
NAStr == <<"<NA>">>
\* an empty spreadsheet cell
NaNCell == "NaN"
\* a float NaN coordinate
NaNCoord == -999

(***************************************************************************)
(* Text helpers.                                                           *)
(***************************************************************************)
Digits == <<"0", "1", "2", "3", "4", "5", "6", "7", "8", "9">>

RECURSIVE IntToStr(_)
\* str(n) of a non-negative integer
IntToStr(n) ==
    IF n < 10 THEN <<Digits[n + 1]>>
    ELSE IntToStr(n \div 10) \o <<Digits[(n % 10) + 1]>>

RECURSIVE Zeros(_)
Zeros(k) == IF k <= 0 THEN <<>> ELSE <<"0">> \o Zeros(k - 1)

\* Series.str.slice(0, stop)
StrSlice(s, stop) == SubSeq(s, 1, IF Len(s) < stop THEN Len(s) ELSE stop)

RECURSIVE SeqSum(_)
SeqSum(s) == IF s = <<>> THEN 0 ELSE Head(s) + SeqSum(Tail(s))

RECURSIVE Flatten(_)
\* pd.concat of a list of frames
Flatten(ss) == IF ss = <<>> THEN <<>> ELSE Head(ss) \o Flatten(Tail(ss))

(***************************************************************************)
(* load_milmi.py: worksheets, cleaning, schema.                            *)
(***************************************************************************)
table_name_load == "milmi_employers"

Counties ==
    <<"Wayne", "Oakland", "Macomb", "Livingston", "Washtenaw", "St Clair",
      "Calhoun", "Monroe">>

\* The rows a worksheet may hold: the cells the cleaning step and the schema
\* checks read.  NAICS is the 8-digit number of the workbook (two trailing
\* zeros) or a shorter one.
CompleteRow ==
    [Name |-> "ACME", Address |-> "1 MAIN ST", City |-> "DETROIT",
     EmploymentSize |-> "5-9", NAICS |-> 44511000]

RawRows ==
    { CompleteRow,
      [CompleteRow EXCEPT !.Name = NaNCell],
      [CompleteRow EXCEPT !.Address = NaNCell],
      [CompleteRow EXCEPT !.EmploymentSize = NaNCell],
      [CompleteRow EXCEPT !.NAICS = 4451] }

Worksheets == UNION {[1..n -> RawRows] : n \in 0..MaxRows}

fillna(cell, value) == IF cell = NaNCell THEN value ELSE cell

\* the id a cleaned row gets: reset_index() numbers the rows of ONE worksheet
\* from 0, and the index column is renamed to id
RowId(i) == i - 1

\* one worksheet after rename/assign/drop/reset_index
CleanSheet(sheet, county, dated) ==
    [i \in DOMAIN sheet |->
        [id |-> RowId(i),
         name |-> fillna(sheet[i].Name, "NAME NOT AVAILABLE"),
         address |-> fillna(sheet[i].Address, "ADDRESS NOT AVAILABLE"),
         city |-> sheet[i].City,
         employment_size |-> fillna(sheet[i].EmploymentSize, "SIZE NOT AVAILABLE"),
         naics |-> StrSlice(IntToStr(sheet[i].NAICS), 6),
         county |-> county,
         year |-> dated]]

\* @pa.check("name")
no_over_filling__name(df) ==
    LET k == Cardinality({i \in DOMAIN df : df[i].name = "NAME NOT AVAILABLE"})
    IN  0 < k /\ k < 100

\* @pa.check("address"): missing < 0.03 * len
no_over_filling__address(df) ==
    100 * Cardinality({i \in DOMAIN df : df[i].address = "ADDRESS NOT AVAILABLE"})
        < 3 * Len(df)

\* @pa.check("employment_size"): missing < 0.10 * len
no_over_filling__emp_size(df) ==
    10 * Cardinality({i \in DOMAIN df : df[i].employment_size = "SIZE NOT AVAILABLE"})
        < Len(df)

\* @pa.check("naics")
naics_6_digit(df) == \A i \in DOMAIN df : Len(df[i].naics) = 6

\* MILMIEmployers.validate(result): TRUE when no SchemaError is raised
MILMIEmployersValid(df) ==
    /\ \A i \in DOMAIN df : df[i].city # NaNCell /\ df[i].county # NaNCell
    /\ no_over_filling__name(df)
    /\ no_over_filling__address(df)
    /\ no_over_filling__emp_size(df)
    /\ naics_6_digit(df)

(***************************************************************************)
(* The relational store: a table is absent, or has columns and rows (a row *)
(* is a function from the table's columns).                                *)
(***************************************************************************)
NoTable == [exists |-> FALSE, cols |-> {}, rows |-> <<>>]

Table(cols, rows) == [exists |-> TRUE, cols |-> cols, rows |-> rows]

\* FROM milmi.employers p
SrcTable == "milmi.employers"
\* LEFT JOIN milmi.employers_geo pg
GeoJoinTable == "milmi.employers_geo"
\* to_postgis(table_name, db, schema="childcare")
GeoTarget == "childcare.employers_geo"
\* to_sql(table_name, db, schema=metadata["schema"])
LoadTarget == "<schema>.milmi_employers"

TableNames == {SrcTable, GeoJoinTable, GeoTarget, LoadTarget}

Project(row, cols) == [c \in cols |-> row[c]]

\* DataFrame.to_sql / to_postgis with if_exists="append": the table is created
\* when absent, and the rows are added after the rows it holds
AppendRows(store, name, cols, rows) ==
    [store EXCEPT ![name] =
        IF store[name].exists
        THEN [store[name] EXCEPT !.rows = @ \o rows]
        ELSE Table(cols, rows)]

(***************************************************************************)
(* geocode_milmi.py: the Delta Selector's two queries.                     *)
(***************************************************************************)
table_name_geo == "employers_geo"

\* the SELECT list of both queries
SelectCols == {"id", "address", "city", "state", "zip_code", "year"}
\* ON p.license_number = pg.license_number AND p.date = pg.date
JoinCols == {"license_number", "date"}

NoError == [kind |-> "none", what |-> "none"]
QueryError(kind, what) == [kind |-> kind, what |-> what]

\* what the server answers to new_employers_q: relations are resolved before
\* columns; a missing relation or column is a ProgrammingError
new_employers_err(store) ==
    IF ~store[SrcTable].exists THEN QueryError("UndefinedTable", SrcTable)
    ELSE IF ~store[GeoJoinTable].exists THEN QueryError("UndefinedTable", GeoJoinTable)
    ELSE IF ~((SelectCols \cup JoinCols) \subseteq store[SrcTable].cols)
        THEN QueryError("UndefinedColumn", SrcTable)
    ELSE IF ~(JoinCols \subseteq store[GeoJoinTable].cols)
        THEN QueryError("UndefinedColumn", GeoJoinTable)
    ELSE NoError

\* the rows of new_employers_q: source rows with no employers_geo row of the
\* same license_number and date
new_employers_rows(store) ==
    LET pg == store[GeoJoinTable].rows
        unmatched(p) ==
            ~\E j \in DOMAIN pg :
                /\ p["license_number"] = pg[j]["license_number"]
                /\ p["date"] = pg[j]["date"]
    IN  [cols |-> SelectCols,
         rows |-> LET sel == SelectSeq(store[SrcTable].rows, unmatched)
                  IN  [i \in DOMAIN sel |-> Project(sel[i], SelectCols)]]

all_employers_err(store) ==
    IF ~store[SrcTable].exists THEN QueryError("UndefinedTable", SrcTable)
    ELSE IF ~(SelectCols \subseteq store[SrcTable].cols)
        THEN QueryError("UndefinedColumn", SrcTable)
    ELSE NoError

all_employers_rows(store) ==
    [cols |-> SelectCols,
     rows |-> [i \in DOMAIN store[SrcTable].rows |->
                  Project(store[SrcTable].rows[i], SelectCols)]]

\* sqlalchemy.exc.ProgrammingError wraps both kinds
IsProgrammingError(err) == err.kind \in {"UndefinedTable", "UndefinedColumn"}

\* except ProgrammingError: the fallback query runs for every ProgrammingError
RunsFallback(err) == IsProgrammingError(err)

\* DataFrame.rename(columns=...): columns that are absent are left alone
RenameMap ==
    [c \in {"license_number", "address", "zip_code"} |->
        CASE c = "license_number" -> "id"
          [] c = "address" -> "street"
          [] c = "zip_code" -> "zip"]

NewName(c) == IF c \in DOMAIN RenameMap THEN RenameMap[c] ELSE c
OldName(cols, n) == CHOOSE c \in cols : NewName(c) = n

rename(df) ==
    LET cols == {NewName(c) : c \in df.cols}
    IN  [cols |-> cols,
         rows |-> [i \in DOMAIN df.rows |->
                     [n \in cols |-> df.rows[i][OldName(df.cols, n)]]]]

(***************************************************************************)
(* Batch Partitioner.                                                      *)
(***************************************************************************)
BatchLimit == 5000

\* calls = (len(new_providers) // 5000) + 1
Calls(n) == (n \div BatchLimit) + 1

\* np.array_split(ary, k): n % k parts of n // k + 1 rows, then parts of n // k
ArraySplitSizes(n, k) ==
    [i \in 1..k |-> IF i <= n % k THEN (n \div k) + 1 ELSE n \div k]

array_split(df, k) ==
    LET sizes == ArraySplitSizes(Len(df.rows), k)
        start(i) == SeqSum(SubSeq(sizes, 1, i - 1))
    IN  [i \in 1..k |->
            [cols |-> df.cols,
             rows |-> SubSeq(df.rows, start(i) + 1, start(i) + sizes[i])]]

(***************************************************************************)
(* Geocode Submitter.                                                      *)
(***************************************************************************)
\* r.drop("date", axis=1) raises KeyError when the frame has no such column
DropRaises(df, col) == col \notin df.cols

drop(df, col) ==
    [cols |-> df.cols \ {col},
     rows |-> [i \in DOMAIN df.rows |-> Project(df.rows[i], df.cols \ {col})]]

\* what the geocoder may say about one address
Matched == 
    [matchtype |-> "Exact", statefp |-> 26, countyfp |-> 65, tract |-> 1,
     block |-> 2, lat |-> 42, lon |-> -83]

Unmatched ==
    [matchtype |-> "<NA>", statefp |-> NAInt, countyfp |-> NAInt, tract |-> NAInt,
     block |-> NAInt, lat |-> NaNCoord, lon |-> NaNCoord]

Answers ==
    { Matched,
      Unmatched,
      [Matched EXCEPT !.matchtype = "Non_Exact", !.statefp = 6, !.countyfp = 163,
                      !.tract = 430100, !.block = 1000],
      [Matched EXCEPT !.countyfp = 1635],
      [Matched EXCEPT !.statefp = 260, !.countyfp = 5],
      [Matched EXCEPT !.tract = NAInt, !.block = NAInt],
      [Unmatched EXCEPT !.lat = 42, !.lon = -83] }

ResponseCols ==
    {"id", "matchtype", "statefp", "countyfp", "tract", "block", "lat", "lon"}

Response(id, a) ==
    [id |-> id, matchtype |-> a.matchtype, statefp |-> a.statefp,
     countyfp |-> a.countyfp, tract |-> a.tract, block |-> a.block,
     lat |-> a.lat, lon |-> a.lon]

\* cg.addressbatch(records): one response per submitted record
AddressBatch(records) ==
    {[i \in DOMAIN records |-> Response(records[i]["id"], f[i])] :
        f \in [DOMAIN records -> Answers]}

\* resp.merge(r[["id", "date"]], on="id"): an inner join on id
merge(resp, r) ==
    LET pairs == {<<i, j>> \in (DOMAIN resp) \X (DOMAIN r.rows) :
                     resp[i]["id"] = r.rows[j]["id"]}
        RECURSIVE build(_, _)
        build(i, j) ==
            IF i > Len(resp) THEN <<>>
            ELSE IF j > Len(r.rows) THEN build(i + 1, 1)
            ELSE (IF <<i, j>> \in pairs
                  THEN <<[c \in ResponseCols \cup {"date"} |->
                            IF c = "date" THEN r.rows[j]["date"] ELSE resp[i][c]]>>
                  ELSE <<>>) \o build(i, j + 1)
    IN  build(1, 1)

(***************************************************************************)
(* Geography Normalizer.                                                   *)
(***************************************************************************)
\* astype(Int64) then astype(String): the decimal text of the number, NA kept
FragmentText(v) == IF v = NAInt THEN NAStr ELSE IntToStr(v)

\* a padding that also cuts to the width, keeping the last characters
zfill_cut(s, width) ==
    IF s = NAStr THEN NAStr
    ELSE LET t == Zeros(width - Len(s)) \o s
         IN  SubSeq(t, Len(t) - width + 1, Len(t))

\* Series.str.zfill(width): pads on the left, never cuts; NA stays NA
zfill(s, width) == IF s = NAStr THEN NAStr ELSE Zeros(width - Len(s)) \o s

\* + on string columns: NA when either side is NA
StrAdd(a, b) == IF a = NAStr \/ b = NAStr THEN NAStr ELSE a \o b

NoneGeom == [kind |-> "None", x |-> NaNCoord, y |-> NaNCoord]

\* gpd.points_from_xy(x, y): a Point for every row; missing coordinates
\* become NaN coordinates of a Point, not a missing geometry
points_from_xy(x, y) == [kind |-> "Point", x |-> x, y |-> y]

block_geoid_of(r) ==
    StrAdd(StrAdd(StrAdd(zfill(FragmentText(r.statefp), 2),
                         zfill(FragmentText(r.countyfp), 3)),
                  zfill(FragmentText(r.tract), 6)),
           zfill(FragmentText(r.block), 4))

NormalizeRow(r) ==
    [id |-> r.id,
     date |-> r.date,
     match_type |-> r.matchtype,
     block_geoid |-> block_geoid_of(r),
     geom |-> points_from_xy(r.lon, r.lat)]

Normalize(frame) == [i \in DOMAIN frame |-> NormalizeRow(frame[i])]

GeoCols == {"id", "date", "match_type", "block_geoid", "geom"}

(***************************************************************************)
(* Schema Validator of geocode_milmi.py.                                   *)
(***************************************************************************)
\* @pa.check("block_geoid"): nulls of a nullable column are not checked
correct_len_block(block_geoid) == block_geoid = NAStr \/ Len(block_geoid) = 15

\* EmployerGeo.validate(gdf): TRUE when no SchemaError is raised
EmployerGeoValid(df) ==
    \A i \in DOMAIN df :
        /\ DOMAIN df[i] = GeoCols
        /\ correct_len_block(df[i].block_geoid)

(***************************************************************************)
(* The stores a run may find.                                              *)
(***************************************************************************)
Edition == "2025-01-01"
PriorEdition == "2024-01-01"
\* the editions metadata.toml describes
KnownEditions == {Edition}
EditionArgs == {Edition, "1999-01-01"}

LoadCols ==
    {"id", "name", "address", "city", "employment_size", "naics", "county", "year"}

\* the columns of MILMIEmployers
EmployerCols ==
    {"id", "name", "address", "city", "state", "zip_code", "zip_code_2",
     "business_description", "naics", "employment_size", "employment_size_range",
     "employment_size_value", "year_established", "county", "year"}

KeyedGeoCols == {"license_number", "date", "match_type", "block_geoid", "geom"}

\* row i of a source table with the given columns
SourceRow(cols, i) ==
    [c \in cols |->
        CASE c = "id" -> i - 1
          [] c = "license_number" -> i - 1
          [] c \in {"year", "date"} -> Edition
          [] OTHER -> c]

SourceRows(cols, n) == [i \in 1..n |-> SourceRow(cols, i)]

SourceTables ==
    {NoTable}
    \cup {Table(EmployerCols, SourceRows(EmployerCols, n)) : n \in 0..MaxGeoRows}
    \cup {Table(EmployerCols \cup JoinCols, SourceRows(EmployerCols \cup JoinCols, n)) :
             n \in 0..MaxGeoRows}

\* milmi.employers_geo: absent, with the columns the persister writes, or with
\* the columns the delta query joins on
JoinTables ==
    {NoTable, Table(GeoCols, <<>>)}
    \cup {Table(KeyedGeoCols, SourceRows(KeyedGeoCols, k)) : k \in 0..MaxGeoRows}

EmptyStore == [t \in TableNames |-> NoTable]

\* the stores geocode_milmi.py may find: nothing of its own output yet
GeoStores ==
    {[EmptyStore EXCEPT ![SrcTable] = src, ![GeoJoinTable] = pg] :
        src \in SourceTables, pg \in JoinTables}

PriorRows == CleanSheet(<<CompleteRow>>, Counties[1], PriorEdition)

\* the stores load_milmi.py may find: no target table, or an earlier edition
LoadStores ==
    {EmptyStore, [EmptyStore EXCEPT ![LoadTarget] = Table(LoadCols, PriorRows)]}

(***************************************************************************)
(* State.                                                                  *)
(***************************************************************************)
VARIABLES
    app,            \* which script this process runs: "load" or "geo"
    edition_date,   \* the click argument
    metadata_only,  \* the click flag
    pc,             \* where main is
    ret,            \* "running", or how main ended: "None", "-1", "raised"
    exc,            \* the exception main ended with
    db,             \* the relational store (db_engine)
    db0,            \* the store as the run found it
    audit,          \* committed provenance records (metadata_engine)
    session,        \* provenance records written and not yet committed
    events,         \* the store operations of this run, in order
    queries,        \* the queries of the Delta Selector, in order
    county_i,       \* load: index of the next worksheet
    county_dfs,     \* load: the cleaned worksheets
    result,         \* the frame handed to the validator
    validated,      \* the frame the validator returned
    new_providers,  \* geo: the selected records
    request_dfs,    \* geo: the batches
    batch_i,        \* geo: index of the next batch
    responses,      \* geo: the merged responses
    geocoded,       \* geo: pd.concat(responses)
    runs            \* processes started so far

vars ==
    <<app, edition_date, metadata_only, pc, ret, exc, db, db0, audit, session,
      events, queries, county_i, county_dfs, result, validated, new_providers,
      request_dfs, batch_i, responses, geocoded, runs>>

loadVars == <<county_i, county_dfs>>
geoVars == <<new_providers, request_dfs, batch_i, responses, geocoded, queries>>
argVars == <<app, edition_date, metadata_only, db0, runs>>

EmptyFrame == [cols |-> {}, rows |-> <<>>]

Locals ==
    /\ ret = "running"
    /\ exc = "none"
    /\ session = <<>>
    /\ events = <<>>
    /\ queries = <<>>
    /\ county_i = 1
    /\ county_dfs = <<>>
    /\ result = <<>>
    /\ validated = <<>>
    /\ new_providers = EmptyFrame
    /\ request_dfs = <<>>
    /\ batch_i = 1
    /\ responses = <<>>

\* a process of either script, before main's first statement
Init ==
    /\ app \in {"load", "geo"}
    /\ edition_date \in EditionArgs
    /\ metadata_only \in BOOLEAN
    /\ pc = "start"
    /\ db \in (IF app = "load" THEN LoadStores ELSE GeoStores)
    /\ db0 = db
    /\ audit = <<>>
    /\ geocoded = <<>>
    /\ runs = 1
    /\ Locals

table_name == IF app = "load" THEN table_name_load ELSE table_name_geo
TargetTable == IF app = "load" THEN LoadTarget ELSE GeoTarget
TargetCols == IF app = "load" THEN LoadCols ELSE GeoCols

\* an exception leaves main: the with-blocks roll back what was not committed
Raise(e) ==
    /\ pc' = "done"
    /\ ret' = "raised"
    /\ exc' = e
    /\ session' = <<>>

(***************************************************************************)
(* main, both scripts: the edition lookup.                                 *)
(***************************************************************************)
Start ==
    /\ pc = "start"
    /\ IF edition_date \in KnownEditions
       THEN /\ pc' = (IF app = "load" THEN "worksheets" ELSE "select")
            /\ UNCHANGED <<ret, exc, session>>
       ELSE Raise("KeyError(edition_date)")
    /\ UNCHANGED <<argVars, db, audit, events, loadVars, geoVars, result, validated>>

(***************************************************************************)
(* load_milmi.main: the worksheet loop.                                    *)
(***************************************************************************)
RowsRead == Len(Flatten(county_dfs))

LoadWorksheet ==
    /\ pc = "worksheets"
    /\ \E sheet \in Worksheets :
        /\ RowsRead + Len(sheet) <= MaxRows
        /\ county_dfs' =
               Append(county_dfs, CleanSheet(sheet, Counties[county_i], edition_date))
    /\ county_i' = county_i + 1
    /\ IF county_i = Len(Counties)
       THEN /\ result' = Flatten(county_dfs')
            /\ pc' = "validate"
       ELSE UNCHANGED <<result, pc>>
    /\ UNCHANGED <<argVars, ret, exc, db, audit, session, events, geoVars, validated>>

\* pd.read_excel raises (no such file or worksheet)
LoadWorksheetFails ==
    /\ pc = "worksheets"
    /\ Raise("read_excel")
    /\ UNCHANGED <<argVars, db, audit, events, loadVars, geoVars, result, validated>>

(***************************************************************************)
(* geocode_milmi.main: Delta Selector, Batch Partitioner, Geocode          *)
(* Submitter.                                                              *)
(***************************************************************************)
Ran(q, err) == [q |-> q, err |-> err]

\* pd.read_sql(new_employers_q, db) inside try / except ProgrammingError
GeoSelectDelta ==
    /\ pc = "select"
    /\ LET err == new_employers_err(db)
       IN  /\ queries' = Append(queries, Ran("new_employers_q", err))
           /\ IF err = NoError
              THEN /\ new_providers' = new_employers_rows(db)
                   /\ pc' = "partition"
                   /\ UNCHANGED <<ret, exc, session>>
              ELSE IF RunsFallback(err)
              THEN /\ pc' = "fallback"
                   /\ UNCHANGED <<new_providers, ret, exc, session>>
              ELSE /\ Raise(err.kind)
                   /\ UNCHANGED new_providers
    /\ UNCHANGED <<argVars, db, audit, events, loadVars, result, validated,
                   request_dfs, batch_i, responses, geocoded>>

\* pd.read_sql(all_employers_q, db) in the except block: nothing catches here
GeoSelectAll ==
    /\ pc = "fallback"
    /\ LET err == all_employers_err(db)
       IN  /\ queries' = Append(queries, Ran("all_employers_q", err))
           /\ IF err = NoError
              THEN /\ new_providers' = all_employers_rows(db)
                   /\ pc' = "partition"
                   /\ UNCHANGED <<ret, exc, session>>
              ELSE /\ Raise(err.kind)
                   /\ UNCHANGED new_providers
    /\ UNCHANGED <<argVars, db, audit, events, loadVars, result, validated,
                   request_dfs, batch_i, responses, geocoded>>

\* the connection or the server fails: an OperationalError, which is not a
\* ProgrammingError and leaves main
GeoQueryFails ==
    /\ pc \in {"select", "fallback"}
    /\ queries' =
           Append(queries,
                  Ran(IF pc = "select" THEN "new_employers_q" ELSE "all_employers_q",
                      QueryError("OperationalError", "connection")))
    /\ Raise("OperationalError")
    /\ UNCHANGED <<argVars, db, audit, events, loadVars, result, validated,
                   new_providers, request_dfs, batch_i, responses, geocoded>>

\* rename, calls, np.array_split
GeoPartition ==
    /\ pc = "partition"
    /\ new_providers' = rename(new_providers)
    /\ request_dfs' = array_split(new_providers', Calls(Len(new_providers'.rows)))
    /\ batch_i' = 1
    /\ responses' = <<>>
    /\ pc' = "submit"
    /\ UNCHANGED <<argVars, ret, exc, db, audit, session, events, queries, loadVars,
                   result, validated, geocoded>>

\* one pass of the request loop; after the last batch, pd.concat(responses)
GeoSubmit ==
    /\ pc = "submit"
    /\ batch_i <= Len(request_dfs)
    /\ LET r == request_dfs[batch_i]
       IN  IF DropRaises(r, "date")
           THEN /\ Raise("KeyError('date')")
                /\ UNCHANGED <<responses, batch_i, geocoded>>
           ELSE IF "id" \notin r.cols
           THEN /\ Raise("KeyError('id')")
                /\ UNCHANGED <<responses, batch_i, geocoded>>
           ELSE \E response \in AddressBatch(drop(r, "date").rows) :
                /\ responses' = Append(responses, merge(response, r))
                /\ batch_i' = batch_i + 1
                /\ IF batch_i = Len(request_dfs)
                   THEN /\ geocoded' = Flatten(responses')
                        /\ pc' = "normalize"
                   ELSE UNCHANGED <<geocoded, pc>>
                /\ UNCHANGED <<ret, exc, session>>
    /\ UNCHANGED <<argVars, db, audit, events, queries, loadVars, result, validated,
                   new_providers, request_dfs>>

\* lines 131-170: the Geography Normalizer
GeoNormalize ==
    /\ pc = "normalize"
    /\ result' = Normalize(geocoded)
    /\ pc' = "validate"
    /\ UNCHANGED <<argVars, ret, exc, db, audit, session, events, loadVars, geoVars,
                   validated>>

(***************************************************************************)
(* main, both scripts: Schema Validator, Audit Recorder, Conditional       *)
(* Persister.  The two scripts differ in the schema, the table and the     *)
(* frame; the statements are the same.                                     *)
(***************************************************************************)
SchemaValid(df) ==
    IF app = "load" THEN MILMIEmployersValid(df) ELSE EmployerGeoValid(df)

\* a validator whose except block logs and falls through
AfterValidate_fallthrough(ok) == "audit"

\* where main goes after validate(): `return -1` in the except block
AfterValidate(ok) == IF ok THEN "audit" ELSE "done"

Validate ==
    /\ pc = "validate"
    /\ pc' = AfterValidate(SchemaValid(result))
    /\ IF SchemaValid(result)
       THEN /\ validated' = result
            /\ UNCHANGED ret
       ELSE /\ ret' = "-1"
            /\ UNCHANGED validated
    /\ UNCHANGED <<argVars, exc, db, audit, session, events, loadVars, geoVars, result>>

Provenance ==
    [table |-> table_name, edition |-> edition_date, script |-> app,
     nrows |-> Len(result)]

\* record_metadata(...) on a session bound to the metadata connection
RecordMetadata ==
    /\ pc = "audit"
    /\ session' = Append(session, Provenance)
    /\ events' = Append(events, "record_metadata")
    /\ pc' = "commit"
    /\ UNCHANGED <<argVars, ret, exc, db, audit, loadVars, geoVars, result, validated>>

\* metadata_engine.connect() or record_metadata raises
RecordMetadataFails ==
    /\ pc = "audit"
    /\ Raise("record_metadata")
    /\ UNCHANGED <<argVars, db, audit, events, loadVars, geoVars, result, validated>>

\* db.commit() left out: the record stays in the session
Commit_late ==
    /\ pc = "commit"
    /\ pc' = "persist"
    /\ UNCHANGED <<argVars, ret, exc, db, audit, session, events, loadVars, geoVars,
                   result, validated>>

\* db.commit()
Commit ==
    /\ pc = "commit"
    /\ audit' = audit \o session
    /\ session' = <<>>
    /\ events' = Append(events, "commit")
    /\ pc' = "persist"
    /\ UNCHANGED <<argVars, ret, exc, db, loadVars, geoVars, result, validated>>

\* db.commit() raises: the record is rolled back
CommitFails ==
    /\ pc = "commit"
    /\ Raise("commit")
    /\ UNCHANGED <<argVars, db, audit, events, loadVars, geoVars, result, validated>>

\* a persister that ignores the flag
Writes_always(flag) == TRUE

\* if not metadata_only:
Writes(flag) == ~flag

\* the rows the data write leaves in the target table
Persisted(store, rows) == AppendRows(store, TargetTable, TargetCols, rows)

\* validated.to_sql / to_postgis(..., if_exists="append"), or the else branch
Persist ==
    /\ pc = "persist"
    /\ IF Writes(metadata_only)
       THEN /\ db' = Persisted(db, validated)
            /\ events' = Append(events, "data_write")
       ELSE UNCHANGED <<db, events>>
    /\ pc' = "done"
    /\ ret' = "None"
    /\ UNCHANGED <<argVars, exc, audit, session, loadVars, geoVars, result, validated>>

\* db_engine.connect() or the write raises after the audit commit
PersistFails ==
    /\ pc = "persist"
    /\ Writes(metadata_only)
    /\ Raise("data_write")
    /\ UNCHANGED <<argVars, db, audit, events, loadVars, geoVars, result, validated>>

(***************************************************************************)
(* Specifications.                                                         *)
(***************************************************************************)
ValidateAuditPersist ==
    \/ Validate
    \/ RecordMetadata
    \/ RecordMetadataFails
    \/ Commit
    \/ CommitFails
    \/ Persist
    \/ PersistFails

GeoFront ==
    \/ GeoSelectDelta
    \/ GeoSelectAll
    \/ GeoQueryFails
    \/ GeoPartition
    \/ GeoSubmit

Next ==
    \/ Start
    \/ LoadWorksheet
    \/ LoadWorksheetFails
    \/ GeoFront
    \/ ValidateAuditPersist

\* one process of either script, from its first statement
Spec == Init /\ [][Next]_vars

(***************************************************************************)
(* The stages of geocode_milmi.main from line 131 on, as functions of the  *)
(* frame the Geocode Submitter hands over: the frame is drawn from the     *)
(* answers the geocoder can give for the rows of the source table.  A      *)
(* second process of the script may follow the first against the store the *)
(* first one left.                                                         *)
(***************************************************************************)
MaxRuns == 2

KeyedSourceCols == EmployerCols \cup JoinCols

StageStores ==
    {[EmptyStore EXCEPT ![SrcTable] = Table(KeyedSourceCols, SourceRows(KeyedSourceCols, n)),
                        ![GeoJoinTable] = pg] :
        n \in 0..MaxGeoRows,
        pg \in {NoTable, Table(GeoCols, <<>>), Table(KeyedGeoCols, <<>>)}}

\* the merged responses for every row of the source table
MergedFrames(src) ==
    {[i \in DOMAIN src.rows |->
        [c \in ResponseCols \cup {"date"} |->
            IF c = "date" THEN src.rows[i]["date"]
            ELSE Response(src.rows[i]["id"], f[i])[c]]] :
        f \in [DOMAIN src.rows -> Answers]}

InitStages ==
    /\ app = "geo"
    /\ edition_date = Edition
    /\ metadata_only \in BOOLEAN
    /\ pc = "normalize"
    /\ db \in StageStores
    /\ db0 = db
    /\ audit = <<>>
    /\ geocoded \in MergedFrames(db[SrcTable])
    /\ runs = 1
    /\ Locals

\* the script is started again once the process has ended
Rerun ==
    /\ pc = "done"
    /\ app = "geo"
    /\ runs < MaxRuns
    /\ runs' = runs + 1
    /\ pc' = "start"
    /\ db0' = db
    /\ geocoded' = <<>>
    /\ ret' = "running"
    /\ exc' = "none"
    /\ session' = <<>>
    /\ events' = <<>>
    /\ queries' = <<>>
    /\ county_i' = 1
    /\ county_dfs' = <<>>
    /\ result' = <<>>
    /\ validated' = <<>>
    /\ new_providers' = EmptyFrame
    /\ request_dfs' = <<>>
    /\ batch_i' = 1
    /\ responses' = <<>>
    /\ UNCHANGED <<app, edition_date, metadata_only, db, audit>>

NextStages ==
    \/ GeoNormalize
    \/ ValidateAuditPersist
    \/ Rerun
    \/ Start
    \/ GeoFront

SpecStages == InitStages /\ [][NextStages]_vars

\* both: whole runs of either script, and the later stages of geocode_milmi
InitAll == Init \/ InitStages

NextAll == Next \/ GeoNormalize

SpecAll == InitAll /\ [][NextAll]_vars

(***************************************************************************)
(* Properties.                                                             *)
(***************************************************************************)
Range(f) == {f[i] : i \in DOMAIN f}

\* main has left the validator behind (it returned, or a later stage raised)
PastValidate ==
    \/ pc \in {"audit", "commit", "persist"}
    \/ /\ pc = "done"
       /\ \/ ret \in {"None", "-1"}
          \/ exc \in {"record_metadata", "commit", "data_write"}

\* C1: the data write of a run happens only after record_metadata returned and
\* the metadata transaction was committed; when record_metadata or the commit
\* fails the store is as the run found it and no audit record exists; when the
\* run fails between the commit and the write, the audit record exists and the
\* target table holds none of the run's rows.
C1_AuditBeforeData ==
    /\ ("data_write" \in Range(events) \/ db # db0) =>
           /\ events = <<"record_metadata", "commit", "data_write">>
           /\ audit = <<Provenance>>
    /\ exc \in {"record_metadata", "commit"} =>
           /\ pc = "done"
           /\ db = db0
           /\ audit = <<>>
           /\ session = <<>>
    /\ exc = "data_write" =>
           /\ audit = <<Provenance>>
           /\ db = db0

\* a run of load_milmi.py that wrote its rows, after the audit commit
C1_Witness ==
    /\ app = "load"
    /\ events = <<"record_metadata", "commit", "data_write">>
    /\ Len(validated) > 0
    /\ db # db0

\* C2: when the validator rejects the dataset the run returns -1 and stops:
\* no audit record, pending or committed, no store operation, the store as the
\* run found it; and no stage after the validator ever runs on a dataset the
\* schema rejects.
C2_FailClosed ==
    PastValidate =>
        IF SchemaValid(result)
        THEN ret # "-1"
        ELSE /\ ret = "-1"
             /\ pc = "done"
             /\ exc = "none"
             /\ audit = <<>>
             /\ session = <<>>
             /\ events = <<>>
             /\ validated = <<>>
             /\ db = db0

\* a workbook with rows that the schema rejects
C2_Witness ==
    /\ app = "load"
    /\ ret = "-1"
    /\ Len(result) > 0
    /\ ~naics_6_digit(result)

CeilDiv(n, d) == (n + d - 1) \div d

\* C3: the Batch Partitioner makes ceil(n / 5000) batches whose sizes sum to
\* n; no batch for n = 0.
C3_BatchCount ==
    (app = "geo" /\ pc = "submit") =>
        /\ Len(request_dfs) = CeilDiv(Len(new_providers.rows), BatchLimit)
        /\ SeqSum([i \in DOMAIN request_dfs |-> Len(request_dfs[i].rows)])
               = Len(new_providers.rows)

\* every row of the source table has a row of the same id and date in the table
\* the persister appends to
OutputPersisted ==
    /\ db[GeoTarget].exists
    /\ \A i \in DOMAIN db[SrcTable].rows :
           \E j \in DOMAIN db[GeoTarget].rows :
               /\ db[GeoTarget].rows[j]["id"] = db[SrcTable].rows[i]["id"]
               /\ db[GeoTarget].rows[j]["date"] = db[SrcTable].rows[i]["date"]

\* C4: once a run has persisted its output, the Delta Selector of the next run
\* selects nothing.
C4_IdempotentDelta ==
    (app = "geo" /\ runs >= 2 /\ pc = "partition" /\ OutputPersisted) =>
        new_providers.rows = <<>>

\* C5: the select-all fallback runs only when the delta query failed because
\* a relation does not exist; a delta query that fails for another reason (a
\* missing column of an existing table, a lost connection) ends the run.
C5_BootstrapOnly ==
    (queries # <<>> /\ queries[1].err.kind \notin {"none", "UndefinedTable"}) =>
        /\ \A i \in DOMAIN queries : queries[i].q # "all_employers_q"
        /\ new_providers.rows = <<>>

DigitVal(ch) == CHOOSE d \in 0..9 : Digits[d + 1] = ch

RECURSIVE StrVal(_)
\* the number a string of digits writes
StrVal(s) ==
    IF s = <<>> THEN 0
    ELSE 10 * StrVal(SubSeq(s, 1, Len(s) - 1)) + DigitVal(s[Len(s)])

AllFragments(r) ==
    r.statefp # NAInt /\ r.countyfp # NAInt /\ r.tract # NAInt /\ r.block # NAInt

FitsWidths(r) ==
    r.statefp < 100 /\ r.countyfp < 1000 /\ r.tract < 1000000 /\ r.block < 10000

GeoidOf(g, r) ==
    /\ Len(g) = 15
    /\ AllFragments(r)
    /\ StrVal(SubSeq(g, 1, 2)) = r.statefp
    /\ StrVal(SubSeq(g, 3, 5)) = r.countyfp
    /\ StrVal(SubSeq(g, 6, 11)) = r.tract
    /\ StrVal(SubSeq(g, 12, 15)) = r.block

\* C6: a record of a dataset the validator accepted, and a row of the target
\* table, has a null block_geoid or one of 15 characters that reads state (2),
\* county (3), tract (6), block (4) of its response; a response with all four
\* fragments and one wider than its width is in no accepted dataset.
C6_GeoidInvariant ==
    /\ \A i \in DOMAIN validated :
           /\ validated[i].block_geoid # NAStr =>
                  GeoidOf(validated[i].block_geoid, geocoded[i])
           /\ AllFragments(geocoded[i]) => FitsWidths(geocoded[i])
    /\ \A j \in DOMAIN db[GeoTarget].rows :
           \/ db[GeoTarget].rows[j].block_geoid = NAStr
           \/ Len(db[GeoTarget].rows[j].block_geoid) = 15

\* the spec's example, 26 / 65 / 1 / 2, validated and appended
C6_Witness ==
    \E i \in DOMAIN validated :
        /\ geocoded[i].countyfp = 65
        /\ validated[i].block_geoid =
               <<"2", "6", "0", "6", "5", "0", "0", "0", "0", "0", "1", "0", "0", "0", "2">>
        /\ validated[i] \in Range(db[GeoTarget].rows)

\* C7: a run that ends successfully has validated, written and committed its
\* audit record; with --metadata_only the store is never changed; without it
\* the target table holds the rows it held followed by the validated rows, and
\* no other table changed.
C7_MetadataOnly ==
    /\ metadata_only => db = db0
    /\ (pc = "done" /\ ret = "None") =>
           /\ SchemaValid(result)
           /\ validated = result
           /\ audit = <<Provenance>>
           /\ IF metadata_only
              THEN events = <<"record_metadata", "commit">>
              ELSE /\ db[TargetTable].exists
                   /\ db[TargetTable].rows = db0[TargetTable].rows \o validated
                   /\ \A t \in TableNames \ {TargetTable} : db[t] = db0[t]

\* a metadata-only run of load_milmi.py over an existing table
C7_Witness ==
    /\ app = "load"
    /\ metadata_only
    /\ pc = "done"
    /\ ret = "None"
    /\ Len(validated) > 0
    /\ audit = <<Provenance>>
    /\ db0[LoadTarget].exists
    /\ db = db0

NoAnswer(r) ==
    /\ ~AllFragments(r)
    /\ r.statefp = NAInt /\ r.countyfp = NAInt /\ r.tract = NAInt /\ r.block = NAInt
    /\ r.lat = NaNCoord /\ r.lon = NaNCoord

\* C8: a response without geography and coordinates becomes a record with a
\* null block_geoid and a null geom.
C8_UnmatchedNull ==
    (app = "geo" /\ Len(result) = Len(geocoded)) =>
        \A i \in DOMAIN result :
            NoAnswer(geocoded[i]) =>
                /\ result[i].block_geoid = NAStr
                /\ result[i].geom = NoneGeom

\* C9: once the request loop over a non-empty selection is over, every selected
\* record is in the merged output exactly once (the loop did not stop on the
\* date or id column).
C9_DateStripRemerge ==
    (app = "geo" /\ request_dfs # <<>> /\ new_providers.rows # <<>> /\ pc # "submit") =>
        /\ exc \notin {"KeyError('date')", "KeyError('id')"}
        /\ \A j \in DOMAIN new_providers.rows :
               Cardinality({k \in DOMAIN geocoded :
                               geocoded[k]["id"] = new_providers.rows[j]["id"]}) = 1

\* C10: no two rows of the validated employer dataset of one edition share
\* an id.
C10_UniqueIds ==
    app = "load" =>
        \A i, j \in DOMAIN validated :
            i # j => validated[i].id # validated[j].id

====
